---- MODULE Spec2Model ----
(***************************************************************************)
(* Model of the undag interpreter: a program is a commit graph, one        *)
(* instruction per commit message.  src/src/main.rs (replace),             *)
(* src/src/tree.rs (collect_children), src/src/interp.rs (Instance).       *)
(***************************************************************************)
EXTENDS Integers, Sequences, FiniteSets, TLC

\* ---------------------------------------------------------------- bounds
NumCommits == 3      \* commits of the object store, numbered 1..NumCommits
MaxParents == 2      \* parents of one commit
MaxRepl == 1         \* refs/replace/* references of an acyclic store
MaxEntries == 3      \* entries of the root table and the tables nested in it
MaxEntered == 2      \* entries of the scope stack
MaxStrLen == 3       \* characters of a stored string
MaxInt == 1          \* magnitude of a stored integer
MaxOperands == 4     \* operand tokens of a message

NoCommit == 0        \* Err of find_reference / Commit::parent, None of Option<Oid>
Commits == 1..NumCommits

VARIABLES
    parents,     \* the store: commit -> sequence of its parents (Commit::parent(i))
    refs,        \* the store: commit -> target of refs/replace/<id>, or NoCommit
    message,     \* the store: commit -> class of its message, "unread" until fetched
    start,       \* the commit refs/tags/_start peels to
    end,         \* the commit refs/tags/_end peels to
    children,    \* tree::Children once built: canonical id -> set of child ids
    tpc,         \* position of the children-index build
    rcommit,     \* replace: *commit
    rid,         \* replace: id (the identity the call started with)
    replaced,    \* replace: replaced
    rpc,         \* replace: position ("loop", "body", "returned")
    pc,          \* Instance::run: position ("init", "fetch", "exec", "halted")
    cur,         \* Instance::run: cur
    end_id,      \* Instance::run: end_id
    op,          \* Instance::run: op, the class of the parsed instruction
    tag,         \* Instance::run: tag, the rendered operand of the last branch
    err,         \* the Err run returned: its kind and the commit id prefixed to it
    table,       \* Instance.table: the root Table
    entered,     \* Instance.entered: Vec<*mut Table>, each pointer the place of a
                 \* Table inside the root, written as its key path from the root
    ipc,         \* the interpreter: "running", or "halted" after an Err
    ierr,        \* the Err that exec returned, "none" otherwise
    call,        \* a function called on its own: its name and arguments
    ret          \* what that call returned, Pending until it has

Ids == DOMAIN parents  \* the commits of the store at hand
store == <<parents, refs, start, end>>
treeVars == <<children, tpc>>
replVars == <<rcommit, rid, replaced, rpc>>
runVars == <<pc, cur, end_id, op, tag, err>>
interpVars == <<table, entered, ipc, ierr>>
callVars == <<call, ret>>
vars == <<parents, refs, message, start, end, children, tpc, rcommit, rid, replaced, rpc,
          pc, cur, end_id, op, tag, err, table, entered, ipc, ierr, call, ret>>

\* ------------------------------------------------------------ the store
\* Sequences of length <= n of distinct elements of S.
RECURSIVE SeqsNoDup(_, _)
SeqsNoDup(S, n) ==
    IF n = 0 THEN {<<>>}
    ELSE {<<>>} \cup {<<x>> \o s : x \in S, s \in SeqsNoDup(S, n - 1)}

DistinctSeqs(S, n) == {s \in SeqsNoDup(S, n) : \A i, j \in 1..Len(s) : i # j => s[i] # s[j]}

\* A content-addressed store is acyclic: number the commits topologically, so
\* that the parents of commit c are among 1..c-1.
RECURSIVE Graphs(_)
Graphs(n) ==
    IF n = 0 THEN {<<>>}
    ELSE {Append(g, p) : g \in Graphs(n - 1), p \in DistinctSeqs(1..(n - 1), MaxParents)}

\* refs/replace/<id> lookup (main.rs:28-30): the replacement commit, or NoCommit.
find_replace(c) == refs[c]

RECURSIVE ChainEnds(_, _, _)
ChainEnds(r, c, fuel) ==
    IF r[c] = NoCommit THEN TRUE
    ELSE IF fuel = 0 THEN FALSE
    ELSE ChainEnds(r, r[c], fuel - 1)

Acyclic(r) == \A c \in DOMAIN r : ChainEnds(r, c, Cardinality(DOMAIN r))

AllRefs(n) == [1..n -> 0..n]
AcyclicRefs(n, k) ==
    {r \in AllRefs(n) : Acyclic(r) /\ Cardinality({c \in 1..n : r[c] # NoCommit}) <= k}

\* ------------------------------------------------------------- replace
\* fn replace (main.rs:25-36) on a store whose chains end: the commit left in
\* *commit and the returned Option<Oid> (the original id when a step was taken).
RECURSIVE replace_commit(_)
replace_commit(c) ==
    IF find_replace(c) = NoCommit THEN c ELSE replace_commit(find_replace(c))

replace(c) ==
    [commit |-> replace_commit(c),
     old    |-> IF find_replace(c) # NoCommit THEN c ELSE NoCommit]

\* ---------------------------------------------------- collect_children
put(f, k, v) == [x \in DOMAIN f \cup {k} |-> IF x = k THEN v ELSE f[x]]

\* (mutant) the parent is used as the store returns it, replace not applied
collect_parent_raw(commit, i) == [commit |-> parents[commit][i + 1], old |-> NoCommit]

\* tree.rs:16-21  commit.parent(i), passed through replace; equals records the alias
collect_parent(commit, i) == replace(parents[commit][i + 1])

collect_equals(equals, r) ==
    IF r.old # NoCommit THEN put(equals, r.old, r.commit) ELSE equals

\* (mutant) the child is inserted only when the entry is created
collect_insert_new_only(chld, parent, commit) ==
    put(chld, parent, IF parent \in DOMAIN chld THEN chld[parent] ELSE {commit})

\* tree.rs:22-28  children.entry(parent.id()).or_insert_with(..).insert(commit.id())
collect_insert(chld, parent, commit) ==
    put(chld, parent, (IF parent \in DOMAIN chld THEN chld[parent] ELSE {}) \cup {commit})

\* (mutant) the parent is never pushed: its own parents are not walked
collect_push_skip(stack, done, parent) ==
    LET n == Len(stack)
    IN [stack EXCEPT ![n] = <<stack[n][1], stack[n][2] + 1>>]

\* (mutant) the parent is pushed whether or not its entry was new
collect_push_always(stack, done, parent) ==
    LET n == Len(stack)
        st == [stack EXCEPT ![n] = <<stack[n][1], stack[n][2] + 1>>]
    IN Append(st, <<parent, 0>>)

\* tree.rs:17,29-31  *i += 1, and the parent is pushed when its entry was new
collect_push(stack, done, parent) ==
    LET n == Len(stack)
        st == [stack EXCEPT ![n] = <<stack[n][1], stack[n][2] + 1>>]
    IN IF done THEN st ELSE Append(st, <<parent, 0>>)

\* tree.rs:15-35  one iteration of the while loop, the stack not being empty
collect_step(stack, chld, equals) ==
    LET n == Len(stack)
        commit == stack[n][1]
        i == stack[n][2]
    IN IF i < Len(parents[commit])
       THEN LET r == collect_parent(commit, i)
                done == r.commit \in DOMAIN chld
            IN [stack |-> collect_push(stack, done, r.commit),
                children |-> collect_insert(chld, r.commit, commit),
                equals |-> collect_equals(equals, r)]
       ELSE [stack |-> SubSeq(stack, 1, n - 1), children |-> chld, equals |-> equals]

\* tree.rs:15-35  the while loop over the explicit DFS stack
RECURSIVE collect_loop(_, _, _)
collect_loop(stack, chld, equals) ==
    IF stack = <<>> THEN [children |-> chld, equals |-> equals]
    ELSE LET s == collect_step(stack, chld, equals)
         IN collect_loop(s.stack, s.children, s.equals)

\* tree.rs:37-44  every child set rewritten through equals
collect_rewrite(chld, equals) ==
    [p \in DOMAIN chld |->
        {IF id \in DOMAIN equals THEN equals[id] ELSE id : id \in chld[p]}]

\* tree.rs:7-57  collect_children(repo, end); the Vec of each key enumerates its
\* HashSet in an unspecified order, so the index is kept as a set per key.
collect_children(e) ==
    LET r == replace(e)
        w == collect_loop(<<<<r.commit, 0>>>>, <<>>, collect_equals(<<>>, r))
    IN collect_rewrite(w.children, w.equals)

\* ------------------------------------------------- specification: index
\* Variables a specification leaves alone.
TreeIdle == children = <<>> /\ tpc = "idle"
ReplIdle == rcommit = NoCommit /\ rid = NoCommit /\ replaced = FALSE /\ rpc = "idle"
NoErr == [kind |-> "none", prefix |-> NoCommit]
InterpIdle == table = <<>> /\ entered = <<>> /\ ipc = "idle" /\ ierr = "none"
CallIdle == call = [fn |-> "none"] /\ ret = [ok |-> FALSE, err |-> "idle"]
RunIdle ==
    /\ pc = "idle" /\ cur = NoCommit /\ end_id = NoCommit
    /\ op = "none" /\ tag = NoCommit /\ err = NoErr
Unread == [c \in Ids |-> "unread"]

TreeInit ==
    /\ parents \in Graphs(NumCommits)
    /\ refs \in AcyclicRefs(NumCommits, MaxRepl)
    /\ message = Unread
    /\ start = 1
    /\ end \in Commits
    /\ children = <<>>
    /\ tpc = "start"
    /\ ReplIdle
    /\ RunIdle
    /\ InterpIdle /\ CallIdle

\* tree.rs:7-57 applied to the commit of refs/tags/_end
CollectChildren ==
    /\ tpc = "start"
    /\ children' = collect_children(end)
    /\ tpc' = "built"
    /\ UNCHANGED <<interpVars, callVars, store, message, replVars, runVars>>

TreeNext == CollectChildren

TreeSpec == TreeInit /\ [][TreeNext]_vars

\* ---------------------------------------------- specification: replace
\* fn replace (main.rs:25-36) one loop iteration at a time, on any placement of
\* refs/replace/* references, cyclic ones included.
ReplaceInit ==
    /\ parents = [c \in Commits |-> <<>>]
    /\ refs \in AllRefs(NumCommits)
    /\ message = Unread
    /\ start = 1 /\ end = 1
    /\ TreeIdle
    /\ RunIdle
    /\ InterpIdle /\ CallIdle
    /\ rcommit \in Commits
    /\ rid = rcommit               \* main.rs:26
    /\ replaced = FALSE            \* main.rs:27
    /\ rpc = "loop"

\* main.rs:28-31  while let Ok(replace) = find_reference(..): the lookup succeeds
ReplaceLookup ==
    /\ rpc = "loop"
    /\ find_replace(rcommit) # NoCommit
    /\ rpc' = "body"
    /\ UNCHANGED <<interpVars, callVars, store, message, treeVars, runVars, rcommit, rid, replaced>>

\* main.rs:32-33  *commit = replace; replaced = true; back to the loop condition
ReplaceAssign ==
    /\ rpc = "body"
    /\ rcommit' = find_replace(rcommit)
    /\ replaced' = TRUE
    /\ rpc' = "loop"
    /\ UNCHANGED <<interpVars, callVars, store, message, treeVars, runVars, rid>>

\* main.rs:35  the lookup failed: the loop is left and the function returns
ReplaceReturn ==
    /\ rpc = "loop"
    /\ find_replace(rcommit) = NoCommit
    /\ rpc' = "returned"
    /\ UNCHANGED <<interpVars, callVars, store, message, treeVars, runVars, rcommit, rid, replaced>>

ReplaceNext == ReplaceLookup \/ ReplaceAssign \/ ReplaceReturn

ReplaceSpec == ReplaceInit /\ [][ReplaceNext]_vars

\* The interpreter is one sequential thread: a replace call that can take a
\* step takes it.
ReplaceFairSpec == ReplaceSpec /\ WF_vars(ReplaceNext)

\* ------------------------------------------- the resolved parent relation
\* The redirection-resolved parents of a commit, and what is reachable over them
\* (the relation the claims about the index and about branch are stated over).
ResolvedParents(c) == {replace_commit(parents[c][i]) : i \in DOMAIN parents[c]}

RECURSIVE Closure(_)
Closure(S) ==
    LET T == S \cup UNION {ResolvedParents(c) : c \in S}
    IN IF T = S THEN S ELSE Closure(T)

Reachable(c) == Closure({c})                              \* c and its ancestors
Ancestors(c) == Closure(ResolvedParents(c))               \* one edge or more away
Canonical(c) == find_replace(c) = NoCommit
ResolvedEnd == replace_commit(end)

\* ----------------------------------------------------------- claims: C2
\* C2 (as stated): resolving redirection always terminates, returning the
\* terminal commit of an acyclic chain and stopping with RedirectLoop on a cycle.
C2_ReplaceTerminates == <>(rpc \in {"returned", "RedirectLoop"})

\* ----------------------------------------------------------- claims: C3
\* C3 (as stated): once the index is built, every canonical identity reachable
\* from end over resolved parent edges, the resolved end included, is a key.
C3_ReachableAreKeys ==
    tpc = "built" => Reachable(ResolvedEnd) \subseteq DOMAIN children

\* C3 (amended): once the index is built, every canonical identity reachable from
\* the resolved end over one or more resolved parent edges is a key.
C3_AncestorsAreKeys ==
    tpc = "built" => Ancestors(ResolvedEnd) \subseteq DOMAIN children

\* a built index with a key two or more edges away from end, reached through a
\* replacement reference
C3_Witness ==
    /\ tpc = "built"
    /\ \E k \in DOMAIN children :
        /\ k \notin ResolvedParents(ResolvedEnd)
        /\ \E c \in Ids : find_replace(c) = k

\* ----------------------------------------------------------- claims: C4
\* C4: in the built index no key and no element of a child set is an identity
\* that has a replacement reference.
C4_IndexCanonical ==
    tpc = "built" =>
        \A k \in DOMAIN children :
            Canonical(k) /\ \A c \in children[k] : Canonical(c)

\* a built index in which a replaced commit is a parent of a reachable commit and
\* another is a child
C4_Witness ==
    /\ tpc = "built"
    /\ \E k \in DOMAIN children : \E c \in children[k] : \E i \in DOMAIN parents[c] :
        ~Canonical(parents[c][i]) /\ replace_commit(parents[c][i]) = k
    /\ ~Canonical(end)

\* ----------------------------------------------------------- claims: C5
\* C5: the built index is the inversion of the resolved parent relation on the
\* commits reachable from end: c is in children[p] exactly when c is reachable
\* from the resolved end and p is the resolved identity of a parent of c.
C5_IndexIsInversion ==
    tpc = "built" =>
        \A p, c \in {x \in Ids : Canonical(x)} :
            (p \in DOMAIN children /\ c \in children[p])
                <=> (c \in Reachable(ResolvedEnd) /\ p \in ResolvedParents(c))

\* a built index where a commit has two children and a commit has two parents
C5_Witness ==
    /\ tpc = "built"
    /\ \E p \in DOMAIN children : Cardinality(children[p]) >= 2
    /\ \E c \in Ids : \E p, q \in DOMAIN children :
        p # q /\ c \in children[p] /\ c \in children[q]

\* ------------------------------------------------------------- find_tag
\* Every commit n of the store carries the tag named n; the name NoCommit (and
\* any other) has no reference under refs/tags/.
TagNames == Ids \cup {NoCommit}

\* interp.rs:505-508  find_reference("refs/tags/<tag>").peel_to_commit().ok()?
find_tag_ref(t) == IF t \in Ids THEN t ELSE NoCommit

\* interp.rs:515-517  the top of the stack is recorded when it is one of commits
find_tag_record(found, c, dist, commits) ==
    IF c \in commits THEN Append(found, <<c, dist>>) ELSE found

\* interp.rs:514-531  one iteration of the while loop, the stack not being empty
find_tag_step(stack, checked, dist, found, commits) ==
    LET n == Len(stack)
        c == stack[n][1]
        i == stack[n][2]
        found1 == find_tag_record(found, c, dist, commits)
    IN IF i < Len(parents[c])
       THEN LET parent == replace(parents[c][i + 1]).commit
            IN IF parent \notin checked
               THEN [stack |-> Append(stack, <<parent, 0>>),
                     checked |-> checked \cup {parent}, dist |-> dist + 1, found |-> found1]
               ELSE [stack |-> [stack EXCEPT ![n] = <<c, i + 1>>],
                     checked |-> checked, dist |-> dist, found |-> found1]
       ELSE [stack |-> SubSeq(stack, 1, n - 1),
             checked |-> checked, dist |-> dist - 1, found |-> found1]

\* interp.rs:514-531  the while loop over the explicit DFS stack
RECURSIVE find_tag_loop(_, _, _, _, _)
find_tag_loop(stack, checked, dist, found, commits) ==
    IF stack = <<>> THEN found
    ELSE LET s == find_tag_step(stack, checked, dist, found, commits)
         IN find_tag_loop(s.stack, s.checked, s.dist, s.found, commits)

\* (mutant) the entry of greatest dist is taken
find_tag_max(found) ==
    IF found = <<>> THEN NoCommit
    ELSE LET last == CHOOSE k \in DOMAIN found :
                         \A j \in DOMAIN found : found[j][2] <= found[k][2]
         IN found[last][1]

\* interp.rs:533-536  min_by_key: the first of the entries of least dist
find_tag_min(found) ==
    IF found = <<>> THEN NoCommit
    ELSE LET least == CHOOSE d \in {found[k][2] : k \in DOMAIN found} :
                          \A k \in DOMAIN found : d <= found[k][2]
             first == CHOOSE k \in DOMAIN found :
                          /\ found[k][2] = least
                          /\ \A j \in DOMAIN found : found[j][2] = least => k <= j
         IN found[first][1]

\* interp.rs:498-537  find_tag(repo, tag, commits): the commit found, or NoCommit
find_tag(t, commits) ==
    IF find_tag_ref(t) = NoCommit THEN NoCommit
    ELSE find_tag_min(
             find_tag_loop(<<<<replace(find_tag_ref(t)).commit, 0>>>>, {}, 1, <<>>, commits))

\* ------------------------------------------------------- Instance::run
\* The classes of instruction a message parses to: "branch" is Op::Branch, "op"
\* any other Op, "bad" a message str::parse::<Op> rejects.  A commit's message is
\* fixed by the store; it is bound here the first time it is read.
MessageClasses == {"branch", "op", "bad"}

RunInit ==
    /\ parents \in Graphs(NumCommits)
    /\ refs \in AcyclicRefs(NumCommits, MaxRepl)
    /\ message = Unread
    /\ start \in Commits
    /\ end \in Commits
    /\ TreeIdle
    /\ ReplIdle
    /\ InterpIdle /\ CallIdle
    /\ pc = "init" /\ cur = NoCommit /\ end_id = NoCommit
    /\ op = "none" /\ tag = NoCommit /\ err = NoErr

\* (mutant) end_id is taken from end before it is resolved
run_end_id_raw(e) == e

\* interp.rs:292-294  replace(repo, &mut end); end_id = end.id()
run_end_id(e) == replace(e).commit

\* (mutant) the message is read from the cursor as it stands
run_fetch_raw(c) == c

\* interp.rs:299  replace(repo, &mut cur)
run_fetch(c) == replace(c).commit

\* (mutant) any child of the cursor is taken once the tag exists
run_branch_target_any(c, t) ==
    IF c \in DOMAIN children /\ find_tag_ref(t) # NoCommit
    THEN CHOOSE x \in children[c] : TRUE
    ELSE NoCommit

\* interp.rs:306-308  children.get(&cur.id()).and_then(|nexts| find_tag(repo, &tag, nexts))
run_branch_target(c, t) ==
    IF c \in DOMAIN children THEN find_tag(t, children[c]) ELSE NoCommit

\* (mutant) the successor is always the same child
run_successors_first(c) ==
    IF c \in DOMAIN children THEN {CHOOSE x \in children[c] : TRUE} ELSE {}

\* (mutant) the successor is drawn from all commits of the store
run_successors_any(c) == IF c \in DOMAIN children THEN Ids ELSE {}

\* interp.rs:320-323  children.get(&cur.id()): the commits iter.nth(rng % len) can yield
run_successors(c) == IF c \in DOMAIN children THEN children[c] ELSE {}

\* interp.rs:292-297
Startup ==
    /\ pc = "init"
    /\ end_id' = run_end_id(end)
    /\ children' = collect_children(end)
    /\ cur' = start
    /\ pc' = "fetch"
    /\ UNCHANGED <<interpVars, callVars, store, message, tpc, replVars, op, tag, err>>

\* interp.rs:299-303  the cursor is resolved and its message parsed
Fetch(class) ==
    /\ pc = "fetch"
    /\ LET c == run_fetch(cur)
       IN /\ cur' = c
          /\ message[c] \in {"unread", class}
          /\ message' = [message EXCEPT ![c] = class]
    /\ class # "bad"
    /\ op' = class
    /\ pc' = "exec"
    /\ UNCHANGED <<interpVars, callVars, store, treeVars, replVars, end_id, tag, err>>

\* interp.rs:300-303  the message does not parse: `?` returns the parse error
FetchParseError ==
    /\ pc = "fetch"
    /\ LET c == run_fetch(cur)
       IN /\ cur' = c
          /\ message[c] \in {"unread", "bad"}
          /\ message' = [message EXCEPT ![c] = "bad"]
    /\ pc' = "halted"
    /\ err' = [kind |-> "ParseError", prefix |-> NoCommit]
    /\ UNCHANGED <<interpVars, callVars, store, treeVars, replVars, end_id, op, tag>>

\* interp.rs:305  tag.val(self.table())? fails (an undefined variable operand)
BranchOperandError ==
    /\ pc = "exec" /\ op = "branch"
    /\ pc' = "halted"
    /\ err' = [kind |-> "OperandError", prefix |-> NoCommit]
    /\ UNCHANGED <<interpVars, callVars, store, message, treeVars, replVars, cur, end_id, op, tag>>

\* interp.rs:304-312  the operand renders to the tag name t and find_tag finds a child
BranchTaken(t) ==
    /\ pc = "exec" /\ op = "branch"
    /\ run_branch_target(cur, t) # NoCommit
    /\ tag' = t
    /\ cur' = run_branch_target(cur, t)
    /\ pc' = "fetch"
    /\ UNCHANGED <<interpVars, callVars, store, message, treeVars, replVars, end_id, op, err>>

\* interp.rs:306-309  no entry for the cursor, no such tag, or no candidate found
BranchNotFound(t) ==
    /\ pc = "exec" /\ op = "branch"
    /\ run_branch_target(cur, t) = NoCommit
    /\ tag' = t
    /\ pc' = "halted"
    /\ err' = [kind |-> "BranchTargetNotFound", prefix |-> cur]
    /\ UNCHANGED <<interpVars, callVars, store, message, treeVars, replVars, cur, end_id, op>>

\* interp.rs:313-315  exec returns Err: bail!("{}: {}", cur.id(), e)
ExecError ==
    /\ pc = "exec" /\ op = "op"
    /\ pc' = "halted"
    /\ err' = [kind |-> "ExecError", prefix |-> cur]
    /\ UNCHANGED <<interpVars, callVars, store, message, treeVars, replVars, cur, end_id, op, tag>>

\* interp.rs:317-319  exec returned Ok and the cursor is end: break Ok(())
ExecHalt ==
    /\ pc = "exec" /\ op = "op"
    /\ cur = end_id
    /\ pc' = "halted"
    /\ UNCHANGED <<interpVars, callVars, store, message, treeVars, replVars, cur, end_id, op, tag, err>>

\* interp.rs:320-324  exec returned Ok: a successor is drawn at random
ExecAdvance(next) ==
    /\ pc = "exec" /\ op = "op"
    /\ cur # end_id
    /\ next \in run_successors(cur)
    /\ cur' = next
    /\ pc' = "fetch"
    /\ UNCHANGED <<interpVars, callVars, store, message, treeVars, replVars, end_id, op, tag, err>>

\* interp.rs:325-330  exec returned Ok and the cursor has no entry in the index
ExecNoSuccessor ==
    /\ pc = "exec" /\ op = "op"
    /\ cur # end_id
    /\ run_successors(cur) = {}
    /\ pc' = "halted"
    /\ err' = [kind |-> "NoSuccessor", prefix |-> cur]
    /\ UNCHANGED <<interpVars, callVars, store, message, treeVars, replVars, cur, end_id, op, tag>>

RunNext ==
    \/ Startup
    \/ \E class \in MessageClasses : Fetch(class)
    \/ FetchParseError
    \/ BranchOperandError
    \/ \E t \in TagNames : BranchTaken(t)
    \/ \E t \in TagNames : BranchNotFound(t)
    \/ ExecError
    \/ ExecHalt
    \/ \E next \in Ids : ExecAdvance(next)
    \/ ExecNoSuccessor

Spec == RunInit /\ [][RunNext]_vars

\* -------------------------------------------- specification: tagged branch
\* The cursor loop on larger programs of the usual shape: one root, every other
\* commit with a parent, the newest commit tagged _end, no replacement references.
TagCommits == 5

TagInit ==
    /\ parents \in {g \in Graphs(TagCommits) : \A c \in 2..TagCommits : g[c] # <<>>}
    /\ refs = [c \in 1..TagCommits |-> NoCommit]
    /\ message = Unread
    /\ start \in 1..TagCommits
    /\ end = TagCommits
    /\ TreeIdle
    /\ ReplIdle
    /\ InterpIdle /\ CallIdle
    /\ pc = "init" /\ cur = NoCommit /\ end_id = NoCommit
    /\ op = "none" /\ tag = NoCommit /\ err = NoErr

TagSpec == TagInit /\ [][RunNext]_vars

\* Least number of resolved parent edges from commit s to commit c (c reachable).
RECURSIVE DistanceFrom(_, _, _)
DistanceFrom(layer, c, d) ==
    IF c \in layer THEN d
    ELSE DistanceFrom(layer \cup UNION {ResolvedParents(x) : x \in layer}, c, d + 1)

Distance(s, c) == DistanceFrom({s}, c, 0)

\* c is, among the members of C that are ancestors-or-self of the resolved
\* commit of tag t, one of least distance from it.
Nearest(c, t, C) ==
    LET s == replace_commit(find_tag_ref(t))
        candidates == C \cap Reachable(s)
    IN /\ c \in candidates
       /\ \A x \in candidates : Distance(s, c) <= Distance(s, x)

\* ----------------------------------------------------------- claims: C1
\* C1 (as stated): when branch T succeeds, the child it moves the cursor to has
\* the least shortest-path distance from T's resolved commit among the members
\* of the cursor's child set that are ancestors-or-self of that commit.
C1_BranchPicksNearest ==
    [][(pc = "exec" /\ op = "branch" /\ pc' = "fetch")
          => Nearest(cur', tag', children[cur])]_vars

\* ----------------------------------------------------------- claims: C6
\* C6 (as stated): the run starts at _start, and once the resolved cursor is the
\* resolved _end the run halts there after handling its instruction: the cursor
\* never advances beyond _end, whatever instruction _end carries, branch included.
C6_NeverPastEnd ==
    [][(pc = "exec" /\ cur = ResolvedEnd) => (pc' = "halted" /\ cur' = cur)]_vars

\* C6 (amended): the run starts with the cursor at _start; whenever the resolved
\* cursor is the resolved _end and its instruction is not a branch, the run halts
\* there once the instruction has been handled (successfully when the instruction
\* succeeds), also when _end has children in the index; and the run halts
\* successfully nowhere else.
C6_HaltsAtEnd ==
    /\ [][(pc = "init" /\ pc' # "init") => cur' = start]_vars
    /\ [][(pc = "exec" /\ cur = ResolvedEnd /\ op # "branch")
            => (pc' = "halted" /\ cur' = cur /\ err'.kind \in {"none", "ExecError"})]_vars
    /\ [](pc = "halted" /\ err = NoErr => cur = ResolvedEnd)

\* the run has halted successfully at an _end that has children in the index,
\* reached by advancing from a different _start
C6_Witness ==
    /\ pc = "halted" /\ err = NoErr
    /\ cur = ResolvedEnd
    /\ ResolvedEnd \in DOMAIN children
    /\ replace_commit(start) # ResolvedEnd
    /\ ~Canonical(end)

\* ----------------------------------------------------------- claims: C7
\* C7: every instruction parsed and executed is read from a canonical commit: the
\* cursor has been passed through the redirection resolver before its message
\* is read, at the start and after every advance.
C7_FetchedIsCanonical ==
    /\ pc = "exec" => Canonical(cur)
    /\ \A c \in Ids : message[c] # "unread" => Canonical(c)

\* the cursor entered a replaced _start and the replacement's instruction is
\* about to execute
C7_Witness ==
    /\ pc = "exec"
    /\ ~Canonical(start)
    /\ cur = replace_commit(start)
    /\ message[start] = "unread"

\* ----------------------------------------------------------- claims: C8
\* C8 (as stated): every error raised while the cursor loop runs is reported
\* with the current cursor's commit identity as a prefix.
C8_ErrorsPrefixed ==
    (pc = "halted" /\ err # NoErr) => err.prefix = cur

\* =========================================================== the interpreter
\* Strings are sequences of characters, so that rendering a value and splitting
\* a path at '/' are computed, not assumed.
\* interp.rs:9-14  enum Val
IntVal(n) == [t |-> "Int", n |-> n]
StrVal(s) == [t |-> "Str", s |-> s]
TableVal(m) == [t |-> "Table", m |-> m]
\* interp.rs:7  Table::new()
NewTable == <<>>

\* interp.rs:37-41  enum Get
GetVal(v) == [g |-> "Val", val |-> v]
GetVar(s) == [g |-> "Var", var |-> s]

Ok(v) == [ok |-> TRUE, val |-> v]
Fail(kind) == [ok |-> FALSE, err |-> kind]

Digits == <<"0", "1", "2", "3", "4", "5", "6", "7", "8", "9">>

\* interp.rs:30  write!(f, "{}", n) of an i64 (and usize::to_string): decimal
RECURSIVE Decimal(_)
Decimal(n) ==
    IF n < 0 THEN <<"-">> \o Decimal(-n)
    ELSE IF n < 10 THEN <<Digits[n + 1]>>
    ELSE Decimal(n \div 10) \o <<Digits[(n % 10) + 1]>>

\* interp.rs:27-35  impl Display for Val
to_string(v) ==
    CASE v.t = "Int" -> Decimal(v.n)
      [] v.t = "Str" -> v.s
      [] v.t = "Table" -> <<"<", "t", "a", "b", "l", "e", ">">>

\* str::split('/'): the segments of s, one more than it has slashes
RECURSIVE split(_)
split(s) ==
    IF \A i \in DOMAIN s : s[i] # "/" THEN <<s>>
    ELSE LET i == CHOOSE k \in DOMAIN s : s[k] = "/" /\ \A j \in 1..(k - 1) : s[j] # "/"
         IN <<SubSeq(s, 1, i - 1)>> \o split(SubSeq(s, i + 1, Len(s)))

\* interp.rs:48-59  the walk of Get::val: interior segments must name Tables
RECURSIVE walk(_, _)
walk(tbl, subs) ==
    LET sub == subs[1]
    IN IF Len(subs) = 1
       THEN IF sub \in DOMAIN tbl THEN Ok(tbl[sub]) ELSE Fail("UndefinedSymbol")
       ELSE IF sub \notin DOMAIN tbl THEN Fail("UndefinedSymbol")
       ELSE IF tbl[sub].t # "Table" THEN Fail("NotATable")
       ELSE walk(tbl[sub].m, Tail(subs))

\* interp.rs:44-62  Get::val
get_val(get, tbl) ==
    IF get.g = "Val" THEN Ok(get.val) ELSE walk(tbl, split(get.var))

\* The Table a pointer addresses: the pointee of ptr in root.  valid is FALSE
\* when no Table is stored at that place any more (the pointer dangles).
RECURSIVE deref(_, _)
deref(root, ptr) ==
    IF ptr = <<>> THEN [valid |-> TRUE, tbl |-> root]
    ELSE IF ptr[1] \in DOMAIN root /\ root[ptr[1]].t = "Table"
         THEN deref(root[ptr[1]].m, Tail(ptr))
         ELSE [valid |-> FALSE, tbl |-> NewTable]

\* the root with the Table at ptr replaced by new (a write through the pointer)
RECURSIVE write_through(_, _, _)
write_through(root, ptr, new) ==
    IF ptr = <<>> THEN new
    ELSE IF ptr[1] \in DOMAIN root /\ root[ptr[1]].t = "Table"
         THEN put(root, ptr[1], TableVal(write_through(root[ptr[1]].m, Tail(ptr), new)))
         ELSE root

\* (mutant) the current scope is always the root table
top_ptr_root(ent) == <<>>

\* interp.rs:234-237, 254  self.entered.last(), or the root table
top_ptr(ent) == IF ent = <<>> THEN <<>> ELSE ent[Len(ent)]

\* interp.rs:228-238  Instance::table
instance_table(root, ent) == deref(root, top_ptr(ent)).tbl

\* (mutant) the tail is inserted only when the key is not there yet
RECURSIVE set_walk_keep(_, _, _)
set_walk_keep(tbl, subs, val) ==
    LET sub == subs[1]
    IN IF Len(subs) = 1 THEN Ok(IF sub \in DOMAIN tbl THEN tbl ELSE put(tbl, sub, val))
       ELSE LET child == IF sub \in DOMAIN tbl THEN tbl[sub] ELSE TableVal(NewTable)
            IN IF child.t # "Table" THEN Fail("NotATable")
               ELSE LET r == set_walk_keep(child.m, Tail(subs), val)
                    IN IF r.ok THEN Ok(put(tbl, sub, TableVal(r.val))) ELSE r

\* interp.rs:485-494  the walk of Instance::set from the Table cur: missing
\* interior segments are created as empty Tables, the tail is inserted
RECURSIVE set_walk(_, _, _)
set_walk(tbl, subs, val) ==
    LET sub == subs[1]
    IN IF Len(subs) = 1 THEN Ok(put(tbl, sub, val))
       ELSE LET child == IF sub \in DOMAIN tbl THEN tbl[sub] ELSE TableVal(NewTable)
            IN IF child.t # "Table" THEN Fail("NotATable")
               ELSE LET r == set_walk(child.m, Tail(subs), val)
                    IN IF r.ok THEN Ok(put(tbl, sub, TableVal(r.val))) ELSE r

\* The state of an Instance after a call: the root, the scope stack, the error.
Done(root, ent) == [table |-> root, entered |-> ent, err |-> "none"]
Raise(root, ent, kind) == [table |-> root, entered |-> ent, err |-> kind]

\* interp.rs:481-496  Instance::set, through table_mut()
instance_set(root, ent, var, val) ==
    LET r == set_walk(instance_table(root, ent), split(var), val)
    IN IF r.ok THEN Done(write_through(root, top_ptr(ent), r.val), ent)
       ELSE Raise(root, ent, r.err)

\* (mutant) a missing interior segment ends the walk, nothing is created
RECURSIVE del_walk_no_create(_, _)
del_walk_no_create(tbl, subs) ==
    LET sub == subs[1]
    IN IF Len(subs) = 1 THEN Ok([k \in DOMAIN tbl \ {sub} |-> tbl[k]])
       ELSE IF sub \notin DOMAIN tbl THEN Ok(tbl)
       ELSE IF tbl[sub].t # "Table" THEN Fail("NotATable")
       ELSE LET r == del_walk_no_create(tbl[sub].m, Tail(subs))
            IN IF r.ok THEN Ok(put(tbl, sub, TableVal(r.val))) ELSE r

\* interp.rs:369-381  the walk of Op::Del: interior segments are created like
\* set's, the tail key is removed
RECURSIVE del_walk(_, _)
del_walk(tbl, subs) ==
    LET sub == subs[1]
    IN IF Len(subs) = 1 THEN Ok([k \in DOMAIN tbl \ {sub} |-> tbl[k]])
       ELSE LET child == IF sub \in DOMAIN tbl THEN tbl[sub] ELSE TableVal(NewTable)
            IN IF child.t # "Table" THEN Fail("NotATable")
               ELSE LET r == del_walk(child.m, Tail(subs))
                    IN IF r.ok THEN Ok(put(tbl, sub, TableVal(r.val))) ELSE r

\* interp.rs:387-403  the walk of Op::Exists
RECURSIVE exists_walk(_, _)
exists_walk(tbl, subs) ==
    LET sub == subs[1]
    IN IF Len(subs) = 1 THEN Ok(sub \in DOMAIN tbl)
       ELSE IF sub \notin DOMAIN tbl THEN Ok(FALSE)
       ELSE IF tbl[sub].t # "Table" THEN Fail("NotATable")
       ELSE exists_walk(tbl[sub].m, Tail(subs))

\* interp.rs:258-271  Instance::enter_table: one push per segment; the segments
\* pushed before a failing one stay pushed
RECURSIVE enter_segments(_, _, _)
enter_segments(root, ent, segs) ==
    IF segs = <<>> THEN Done(root, ent)
    ELSE LET seg == segs[1]
             cur_tbl == instance_table(root, ent)
             entry == IF seg \in DOMAIN cur_tbl THEN cur_tbl[seg] ELSE TableVal(NewTable)
             root1 == write_through(root, top_ptr(ent), put(cur_tbl, seg, entry))
         IN IF entry.t # "Table" THEN Raise(root1, ent, "NotATable")
            ELSE enter_segments(root1, Append(ent, top_ptr(ent) \o <<seg>>), Tail(segs))

enter_table(root, ent, name) == enter_segments(root, ent, split(name))

\* (mutant) exit clears the scope stack
exit_table_all(root, ent) == Done(root, <<>>)

\* interp.rs:273-275  Instance::exit_table
exit_table(root, ent) ==
    Done(root, IF ent = <<>> THEN ent ELSE SubSeq(ent, 1, Len(ent) - 1))

\* ---------------------------------------------------------- Instance::exec
\* interp.rs:355-359  Op::Set
exec_set(var, src, root, ent) ==
    LET tbl == instance_table(root, ent)
        v == get_val(var, tbl)
        s == get_val(src, tbl)
    IN IF ~v.ok THEN Raise(root, ent, v.err)
       ELSE IF ~s.ok THEN Raise(root, ent, s.err)
       ELSE instance_set(root, ent, to_string(v.val), s.val)

\* interp.rs:360-366  Op::Get: the variable named by the rendering of src
exec_get(var, src, root, ent) ==
    LET tbl == instance_table(root, ent)
        v == get_val(var, tbl)
        s == get_val(src, tbl)
    IN IF ~v.ok THEN Raise(root, ent, v.err)
       ELSE IF ~s.ok THEN Raise(root, ent, s.err)
       ELSE LET x == get_val(GetVar(to_string(s.val)), tbl)
            IN IF ~x.ok THEN Raise(root, ent, x.err)
               ELSE instance_set(root, ent, to_string(v.val), x.val)

\* interp.rs:367-383  Op::Del
exec_del(var, root, ent) ==
    LET tbl == instance_table(root, ent)
        v == get_val(var, tbl)
    IN IF ~v.ok THEN Raise(root, ent, v.err)
       ELSE LET r == del_walk(tbl, split(to_string(v.val)))
            IN IF r.ok THEN Done(write_through(root, top_ptr(ent), r.val), ent)
               ELSE Raise(root, ent, r.err)

\* interp.rs:384-405  Op::Exists
exec_exists(var, symbol, root, ent) ==
    LET tbl == instance_table(root, ent)
        v == get_val(var, tbl)
        s == get_val(symbol, tbl)
    IN IF ~v.ok THEN Raise(root, ent, v.err)
       ELSE IF ~s.ok THEN Raise(root, ent, s.err)
       ELSE LET r == exists_walk(tbl, split(to_string(s.val)))
            IN IF ~r.ok THEN Raise(root, ent, r.err)
               ELSE instance_set(root, ent, to_string(v.val), IntVal(IF r.val THEN 1 ELSE 0))

\* interp.rs:406  Op::Enter
exec_enter(name, root, ent) ==
    LET n == get_val(name, instance_table(root, ent))
    IN IF ~n.ok THEN Raise(root, ent, n.err)
       ELSE enter_table(root, ent, to_string(n.val))

\* interp.rs:407-410  Op::Exit
exec_exit(root, ent) == exit_table(root, ent)

\* (mutant) the loop goes on after a pair has matched
RECURSIVE match_branches_all(_, _, _, _, _)
match_branches_all(var, val, branches, root, ent) ==
    IF branches = <<>> THEN Done(root, ent)
    ELSE LET tbl == instance_table(root, ent)
             b0 == get_val(branches[1][1], tbl)
         IN IF ~b0.ok THEN Raise(root, ent, b0.err)
            ELSE IF b0.val = val
            THEN LET new_val == get_val(branches[1][2], tbl)
                     v == get_val(var, tbl)
                 IN IF ~new_val.ok THEN Raise(root, ent, new_val.err)
                    ELSE IF ~v.ok THEN Raise(root, ent, v.err)
                    ELSE LET r == instance_set(root, ent, to_string(v.val), new_val.val)
                         IN IF r.err # "none" THEN r
                            ELSE match_branches_all(var, val, Tail(branches), r.table, ent)
            ELSE match_branches_all(var, val, Tail(branches), root, ent)

\* interp.rs:413-420  the loop of Op::Match over the (value, branch) pairs
RECURSIVE match_branches(_, _, _, _, _)
match_branches(var, val, branches, root, ent) ==
    IF branches = <<>> THEN Done(root, ent)
    ELSE LET tbl == instance_table(root, ent)
             b0 == get_val(branches[1][1], tbl)
         IN IF ~b0.ok THEN Raise(root, ent, b0.err)
            ELSE IF b0.val = val
            THEN LET new_val == get_val(branches[1][2], tbl)
                     v == get_val(var, tbl)
                 IN IF ~new_val.ok THEN Raise(root, ent, new_val.err)
                    ELSE IF ~v.ok THEN Raise(root, ent, v.err)
                    ELSE instance_set(root, ent, to_string(v.val), new_val.val)
            ELSE match_branches(var, val, Tail(branches), root, ent)

\* interp.rs:411-422  Op::Match
exec_match(var, src, branches, root, ent) ==
    LET s == get_val(src, instance_table(root, ent))
    IN IF ~s.ok THEN Raise(root, ent, s.err)
       ELSE match_branches(var, s.val, branches, root, ent)

\* interp.rs:430-440  Op::Inpln: line is what read_line appended, newline included
exec_inpln(var, line, root, ent) ==
    LET v == get_val(var, instance_table(root, ent))
        popped == IF line = <<>> THEN line ELSE SubSeq(line, 1, Len(line) - 1)
        s == IF popped # <<>> /\ popped[Len(popped)] = "\r"
             THEN SubSeq(popped, 1, Len(popped) - 1) ELSE popped
    IN IF ~v.ok THEN Raise(root, ent, v.err)
       ELSE instance_set(root, ent, to_string(v.val), StrVal(s))

\* interp.rs:441-446  Op::Concat
exec_concat(var, a, b, root, ent) ==
    LET tbl == instance_table(root, ent)
        v == get_val(var, tbl)
        x == get_val(a, tbl)
        y == get_val(b, tbl)
    IN IF ~v.ok THEN Raise(root, ent, v.err)
       ELSE IF ~x.ok THEN Raise(root, ent, x.err)
       ELSE IF ~y.ok THEN Raise(root, ent, y.err)
       ELSE instance_set(root, ent, to_string(v.val), StrVal(to_string(x.val) \o to_string(y.val)))

\* interp.rs:449-457  the Table chars builds from a string
chars_table(s) ==
    LET n == Len(s)
        keys == {Decimal(i) : i \in 0..(n - 1)}
        idx(k) == CHOOSE i \in 0..(n - 1) : Decimal(i) = k
        chrs == [k \in keys |-> StrVal(<<s[idx(k) + 1]>>)]
    IN put(chrs, <<"l", "e", "n">>, IntVal(n))

\* interp.rs:447-459  Op::Chars
exec_chars(var, string, root, ent) ==
    LET tbl == instance_table(root, ent)
        v == get_val(var, tbl)
        s == get_val(string, tbl)
    IN IF ~v.ok THEN Raise(root, ent, v.err)
       ELSE IF ~s.ok THEN Raise(root, ent, s.err)
       ELSE instance_set(root, ent, to_string(v.val), TableVal(chars_table(to_string(s.val))))

\* interp.rs:460-467  Op::Eq
exec_eq(var, a, b, root, ent) ==
    LET tbl == instance_table(root, ent)
        x == get_val(a, tbl)
        y == get_val(b, tbl)
        v == get_val(var, tbl)
    IN IF ~x.ok THEN Raise(root, ent, x.err)
       ELSE IF ~y.ok THEN Raise(root, ent, y.err)
       ELSE IF ~v.ok THEN Raise(root, ent, v.err)
       ELSE instance_set(root, ent, to_string(v.val), IntVal(IF x.val = y.val THEN 1 ELSE 0))

\* bitwise and of two non-negative integers
RECURSIVE BitAnd(_, _)
BitAnd(a, b) ==
    IF a = 0 \/ b = 0 THEN 0
    ELSE 2 * BitAnd(a \div 2, b \div 2) + (IF a % 2 = 1 /\ b % 2 = 1 THEN 1 ELSE 0)

\* a & b in two's complement (~x = -x - 1)
and_op(a, b) ==
    IF a >= 0 /\ b >= 0 THEN BitAnd(a, b)
    ELSE IF a >= 0 THEN a - BitAnd(a, -b - 1)
    ELSE IF b >= 0 THEN b - BitAnd(b, -a - 1)
    ELSE -((-a - 1) + (-b - 1) - BitAnd(-a - 1, -b - 1)) - 1

Abs(n) == IF n < 0 THEN -n ELSE n
\* a / b of Rust: the quotient truncated toward zero
div_op(a, b) ==
    IF (a < 0) = (b < 0) THEN Abs(a) \div Abs(b) ELSE -(Abs(a) \div Abs(b))

NumOps == {"gt", "add", "sub", "mul", "div", "mod", "and", "or", "xor"}

\* interp.rs:468-476  the closures num_binop is called with; division and
\* remainder by zero panic
num_op(opname, a, b) ==
    CASE opname = "gt" -> Ok(IF a > b THEN 1 ELSE 0)
      [] opname = "add" -> Ok(a + b)
      [] opname = "sub" -> Ok(a - b)
      [] opname = "mul" -> Ok(a * b)
      [] opname = "div" -> IF b = 0 THEN Fail("panic") ELSE Ok(div_op(a, b))
      [] opname = "mod" -> IF b = 0 THEN Fail("panic") ELSE Ok(a - b * div_op(a, b))
      [] opname = "and" -> Ok(and_op(a, b))
      [] opname = "or" -> Ok(a + b - and_op(a, b))
      [] opname = "xor" -> Ok(a + b - 2 * and_op(a, b))

\* interp.rs:335-351  num_binop
num_binop(var, a, b, opname, root, ent) ==
    LET tbl == instance_table(root, ent)
        x == get_val(a, tbl)
        y == get_val(b, tbl)
        v == get_val(var, tbl)
    IN IF ~x.ok THEN Raise(root, ent, x.err)
       ELSE IF ~y.ok THEN Raise(root, ent, y.err)
       ELSE IF x.val.t = "Int" /\ y.val.t = "Int"
       THEN IF ~v.ok THEN Raise(root, ent, v.err)
            ELSE LET r == num_op(opname, x.val.n, y.val.n)
                 IN IF ~r.ok THEN Raise(root, ent, r.err)
                    ELSE instance_set(root, ent, to_string(v.val), IntVal(r.val))
       ELSE Raise(root, ent, "InvalidArgs")

\* ------------------------------------------------ specification: interpreter
\* The operand tokens instructions are drawn from.
Sa == <<"a">>
Sb == <<"b">>
Sab == <<"a", "/", "b">>
Dests == {GetVal(StrVal(Sa)), GetVal(StrVal(Sab)), GetVar(Sb)}
Args == {GetVal(IntVal(1)), GetVal(StrVal(Sa)), GetVal(StrVal(Sab)), GetVar(Sa), GetVar(Sb)}
Nums == {GetVal(IntVal(0)), GetVal(IntVal(1)), GetVar(Sa)}
Strs == {GetVal(StrVal(Sa)), GetVar(Sb)}
NumDests == {GetVal(StrVal(Sa))}
Lines == {<<"a", "\n">>, <<"a", "\r", "\n">>, <<>>}

RECURSIVE Entries(_)
Entries(tbl) ==
    IF DOMAIN tbl = {} THEN 0
    ELSE LET k == CHOOSE j \in DOMAIN tbl : TRUE
             rest == [j \in DOMAIN tbl \ {k} |-> tbl[j]]
         IN 1 + (IF tbl[k].t = "Table" THEN Entries(tbl[k].m) ELSE 0) + Entries(rest)

RECURSIVE Small(_)
Small(tbl) ==
    \A k \in DOMAIN tbl :
        /\ Len(k) <= MaxStrLen
        /\ CASE tbl[k].t = "Int" -> Abs(tbl[k].n) <= MaxInt
             [] tbl[k].t = "Str" -> Len(tbl[k].s) <= MaxStrLen
             [] tbl[k].t = "Table" -> Small(tbl[k].m)

\* The states the model keeps: an instruction whose result is larger is not drawn.
Bounded(r) ==
    /\ Len(r.entered) <= MaxEntered
    /\ Entries(r.table) <= MaxEntries
    /\ Small(r.table)

\* interp.rs:221-226  Instance::new
InterpInit ==
    /\ table = NewTable
    /\ entered = <<>>
    /\ ipc = "running"
    /\ ierr = "none"
    /\ parents = [c \in Commits |-> <<>>]
    /\ refs = [c \in Commits |-> NoCommit]
    /\ message = Unread
    /\ start = 1 /\ end = 1
    /\ TreeIdle /\ ReplIdle /\ RunIdle /\ CallIdle

\* interp.rs:313-315  one instruction executed: the Instance takes the state exec
\* left; an Err ends the run
Step(r) ==
    /\ ipc = "running"
    /\ Bounded(r)
    /\ table' = r.table
    /\ entered' = r.entered
    /\ ierr' = r.err
    /\ ipc' = IF r.err = "none" THEN "running" ELSE "halted"
    /\ UNCHANGED <<callVars, store, message, treeVars, replVars, runVars>>

ExecSet(var, src) == Step(exec_set(var, src, table, entered))
ExecGet(var, src) == Step(exec_get(var, src, table, entered))
ExecDel(var) == Step(exec_del(var, table, entered))
ExecExists(var, symbol) == Step(exec_exists(var, symbol, table, entered))
ExecEnter(name) == Step(exec_enter(name, table, entered))
ExecExit == Step(exec_exit(table, entered))
ExecMatch(var, src, branches) == Step(exec_match(var, src, branches, table, entered))
ExecInpln(var, line) == Step(exec_inpln(var, line, table, entered))
ExecConcat(var, a, b) == Step(exec_concat(var, a, b, table, entered))
ExecChars(var, string) == Step(exec_chars(var, string, table, entered))
ExecEq(var, a, b) == Step(exec_eq(var, a, b, table, entered))
ExecNum(var, a, b, opname) == Step(num_binop(var, a, b, opname, table, entered))

InterpNext ==
    \/ \E var \in Dests, src \in Args : ExecSet(var, src)
    \/ \E var \in Dests, src \in Args : ExecGet(var, src)
    \/ \E var \in Dests : ExecDel(var)
    \/ \E var \in Dests, symbol \in Args : ExecExists(var, symbol)
    \/ \E name \in Args : ExecEnter(name)
    \/ ExecExit
    \/ \E var \in Dests, src \in Strs, v1 \in Strs, b1 \in Nums :
          ExecMatch(var, src, <<<<v1, b1>>, <<GetVal(StrVal(Sa)), GetVal(IntVal(0))>>>>)
    \/ \E var \in Dests, line \in Lines : ExecInpln(var, line)
    \/ \E var \in Dests, a \in Strs, b \in Strs : ExecConcat(var, a, b)
    \/ \E var \in Dests, string \in Strs : ExecChars(var, string)
    \/ \E var \in Dests, a \in Strs, b \in Strs : ExecEq(var, a, b)
    \/ \E var \in NumDests, a \in Nums, b \in Nums, opname \in NumOps :
          ExecNum(var, a, b, opname)

InterpSpec == InterpInit /\ [][InterpNext]_vars

\* ------------------------------------------------------- the scope stack
\* The entries of the scope stack below the top one, with the key under which
\* the next entry is stored; the root table comes first.
ChainLinks ==
    [i \in 1..Len(entered) |->
        [ptr |-> IF i = 1 THEN <<>> ELSE entered[i - 1], key |-> entered[i][i]]]

\* A stacked Table other than the top one keeps its keys, and every value
\* except the one the chain continues through.
SiblingsKept(link) ==
    LET old == deref(table, link.ptr).tbl
        new == deref(table', link.ptr).tbl
    IN /\ DOMAIN new = DOMAIN old
       /\ \A k \in DOMAIN old \ {link.key} : new[k] = old[k]

\* Every entry addresses a Table; the first is stored directly in the root and
\* each later one directly in the entry before it.
StackIsChain ==
    \A i \in DOMAIN entered :
        /\ Len(entered[i]) = i
        /\ i > 1 => SubSeq(entered[i], 1, i - 1) = entered[i - 1]
        /\ deref(table, entered[i]).valid

\* The entries an instruction leaves on the stack are the ones that were
\* there, and the Tables below the current scope are written only along the
\* chain.
StackedKept ==
    \A i \in DOMAIN entered :
        i <= Len(entered') =>
            /\ entered'[i] = entered[i]
            /\ deref(table', entered[i]).valid
            /\ SiblingsKept(ChainLinks[i])

\* C9: after any sequence of instructions every scope-stack entry addresses a
\* Table reachable from the root (the first entry a Table stored directly in
\* the root, each later entry a Table stored directly in the previous one), and
\* no instruction removes or replaces a Table that stays on the stack.
C9_StackIsChain == []StackIsChain /\ [][StackedKept]_vars

\* C9 witness: two scopes are stacked and an instruction has written into the
\* innermost one.
C9_Witness ==
    /\ Len(entered) = 2
    /\ ierr = "none"
    /\ DOMAIN deref(table, entered[2]).tbl # {}

\* The number of slash-separated segments of a path: one more than its slashes.
Segments(path) == 1 + Cardinality({i \in DOMAIN path : path[i] = "/"})

\* The path enter resolves its operand to, in the current scope.
EnterPath(name) == to_string(get_val(name, instance_table(table, entered)).val)

\* The scope stack after n calls of exit_table.
RECURSIVE Exits(_, _, _)
Exits(n, root, ent) ==
    IF n = 0 THEN ent ELSE Exits(n - 1, root, exit_table(root, ent).entered)

\* A successful enter of a path of k segments appends k entries to the stack,
\* a segment that was missing is created as a Table holding nothing but the
\* segment after it, and k exits give back the stack from before the enter.
EnterPushes(name) ==
    LET k == Segments(EnterPath(name))
    IN /\ Len(entered') = Len(entered) + k
       /\ SubSeq(entered', 1, Len(entered)) = entered
       /\ \A i \in (Len(entered) + 1)..Len(entered') :
            ~deref(table, entered'[i]).valid =>
                DOMAIN deref(table', entered'[i]).tbl \subseteq
                    {entered'[j][j] : j \in {i + 1} \cap DOMAIN entered'}
       /\ Exits(k, table', entered') = entered

\* exit pops the top entry and nothing else; on an empty stack it changes
\* nothing; it never raises an error.
ExitPops ==
    /\ ierr' = "none"
    /\ table' = table
    /\ entered' = IF entered = <<>> THEN <<>> ELSE SubSeq(entered, 1, Len(entered) - 1)

\* C10: a successful enter whose path has k slash-separated segments pushes
\* exactly k entries (creating each missing segment as an empty Table); each
\* exit pops exactly one entry, so k exits restore the stack from before the
\* enter; exit on an empty stack changes nothing and raises no error.
C10_EnterExit ==
    [][/\ \A name \in Args : (ExecEnter(name) /\ ierr' = "none") => EnterPushes(name)
       /\ ExecExit => ExitPops]_vars

\* C10 witness: the path a/b was entered, creating both Tables, and two exits
\* have emptied the stack again.
C10_Witness ==
    /\ entered = <<>>
    /\ ierr = "none"
    /\ Sa \in DOMAIN table
    /\ table[Sa] = TableVal([k \in {Sb} |-> TableVal(NewTable)])

\* ------------------------------------------------------------ set and get
\* The current scope.
Scope == instance_table(table, entered)

\* The path an operand names in the current scope: the rendering of its value.
PathOf(get) == to_string(get_val(get, Scope).val)

\* The current scope after an instruction that left the state r.
ScopeAfter(r) == instance_table(r.table, r.entered)

\* C11: whenever set of a path P to a value V succeeds, in any scope, a read
\* of the variable P from the same scope immediately afterwards succeeds and
\* yields V (the missing interior Tables having been created by the set).
C11_SetThenGet ==
    \A var \in Dests, src \in Args :
        LET r == exec_set(var, src, table, entered)
        IN r.err = "none" =>
            get_val(GetVar(PathOf(var)), ScopeAfter(r)) = Ok(get_val(src, Scope).val)

\* C11 witness: inside the scope a, a set through the path a/b has created the
\* interior Table a and stored the value at b.
C11_Witness ==
    /\ entered = <<Sa>>
    /\ ierr = "none"
    /\ get_val(GetVar(Sab), Scope) = Ok(IntVal(1))

\* ----------------------------------------------------------------- exists
\* exists var symbol can evaluate its operands and write its result: both
\* operands resolve in the current scope and the path var names is writable.
ExistsApplies(var, symbol) ==
    /\ get_val(var, Scope).ok
    /\ get_val(symbol, Scope).ok
    /\ instance_set(table, entered, PathOf(var), IntVal(0)).err = "none"

\* C12: exists V S writes Int 1 to the path V when a variable read of the path
\* named by S would succeed from the current scope and Int 0 otherwise,
\* whatever makes the read fail: a missing final key, a missing interior key
\* or an interior segment that names a non-Table value.
C12_ExistsIffGet ==
    \A var \in Dests, symbol \in Args :
        ExistsApplies(var, symbol) =>
            LET r == exec_exists(var, symbol, table, entered)
                readable == get_val(GetVar(PathOf(symbol)), Scope).ok
            IN /\ r.err = "none"
               /\ get_val(GetVar(PathOf(var)), ScopeAfter(r))
                    = Ok(IntVal(IF readable THEN 1 ELSE 0))

\* -------------------------------------------------- division by zero
\* num_binop is called with two Int operands, the second one 0, and a
\* destination that resolves.
ZeroDivisor(var, a, b) ==
    LET x == get_val(a, Scope)
        y == get_val(b, Scope)
    IN /\ x.ok /\ x.val.t = "Int"
       /\ y.ok /\ y.val = IntVal(0)
       /\ get_val(var, Scope).ok

\* C14: div and mod with Int operands and divisor 0 raise an error through
\* the ordinary error path (exec returns an Err, which run reports with the
\* cursor's identity) and do not write the target path V.
C14_DivByZeroRaises ==
    \A var \in NumDests, a \in Nums, b \in Nums, opname \in {"div", "mod"} :
        ZeroDivisor(var, a, b) =>
            LET r == num_binop(var, a, b, opname, table, entered)
            IN /\ r.err \notin {"none", "panic"}
               /\ r.table = table
               /\ r.entered = entered

\* ------------------------------------------------------- 64-bit arithmetic
\* interp.rs:11  Val::Int(i64): an i64 in two's complement, written as its
\* bytes, least significant first
Width == 8
Bytes(n) == [i \in 1..n |-> 0]

\* the bytes of a + b + carry, as many as a has (the carry out is dropped)
RECURSIVE add_bytes(_, _, _)
add_bytes(a, b, carry) ==
    IF a = <<>> THEN <<>>
    ELSE LET sum == a[1] + b[1] + carry
         IN <<sum % 256>> \o add_bytes(Tail(a), Tail(b), sum \div 256)

not_bytes(a) == [i \in DOMAIN a |-> 255 - a[i]]

\* the bytes of a * d for one byte d, as many as a has
RECURSIVE scale_bytes(_, _, _)
scale_bytes(a, d, carry) ==
    IF a = <<>> THEN <<>>
    ELSE LET prod == a[1] * d + carry
         IN <<prod % 256>> \o scale_bytes(Tail(a), d, prod \div 256)

\* the bytes of a * b, as many as a has
RECURSIVE mul_bytes(_, _)
mul_bytes(a, b) ==
    IF a = <<>> THEN <<>>
    ELSE LET low == scale_bytes(a, b[1], 0)
             high == mul_bytes(SubSeq(a, 1, Len(a) - 1), Tail(b))
         IN <<low[1]>> \o add_bytes(Tail(low), high, 0)

\* i64::wrapping_add, wrapping_sub, wrapping_mul
wrapping_add(a, b) == add_bytes(a, b, 0)
wrapping_sub(a, b) == add_bytes(a, not_bytes(b), 1)
wrapping_mul(a, b) == mul_bytes(a, b)

Negative(a) == a[Len(a)] >= 128

\* i64::overflowing_add, overflowing_sub: the sign of the result is wrong
add_overflows(a, b) ==
    Negative(a) = Negative(b) /\ Negative(wrapping_add(a, b)) # Negative(a)
sub_overflows(a, b) ==
    Negative(a) # Negative(b) /\ Negative(wrapping_sub(a, b)) # Negative(a)

\* a widened to n bytes, keeping its value
sign_extend(a, n) ==
    [i \in 1..n |-> IF i <= Len(a) THEN a[i] ELSE IF Negative(a) THEN 255 ELSE 0]

\* i64::overflowing_mul: the product in 128 bits does not fit 64
mul_overflows(a, b) ==
    LET wide == mul_bytes(sign_extend(a, 2 * Width), sign_extend(b, 2 * Width))
    IN wide # sign_extend(SubSeq(wide, 1, Width), 2 * Width)

ArithOps == {"add", "sub", "mul"}

\* interp.rs:469-471  the closures |a, b| a + b, a - b, a * b on i64: without
\* overflow the result; with overflow the wrapped result in a build without
\* overflow checks (release), a panic in a build with them (debug)
i64_op(opname, a, b) ==
    LET wrapped == CASE opname = "add" -> wrapping_add(a, b)
                     [] opname = "sub" -> wrapping_sub(a, b)
                     [] opname = "mul" -> wrapping_mul(a, b)
        overflows == CASE opname = "add" -> add_overflows(a, b)
                       [] opname = "sub" -> sub_overflows(a, b)
                       [] opname = "mul" -> mul_overflows(a, b)
    IN IF overflows THEN {Ok(wrapped), Fail("panic")} ELSE {Ok(wrapped)}

\* ------------------------------------------------ specification: arithmetic
\* The i64 operands: 0, 1, 2, 2^32, i64::MAX, -1, -2^32, i64::MIN.
I64Inputs ==
    { <<0, 0, 0, 0, 0, 0, 0, 0>>, <<1, 0, 0, 0, 0, 0, 0, 0>>, <<2, 0, 0, 0, 0, 0, 0, 0>>,
      <<0, 0, 0, 0, 1, 0, 0, 0>>, <<255, 255, 255, 255, 255, 255, 255, 127>>,
      <<255, 255, 255, 255, 255, 255, 255, 255>>,
      <<0, 0, 0, 0, 255, 255, 255, 255>>, <<0, 0, 0, 0, 0, 0, 0, 128>> }

\* The call has not returned yet.
Pending == Fail("pending")

\* interp.rs:344-348  num_binop is about to apply op to two Int operands
ArithInit ==
    /\ call \in [fn : {"num_op"}, opname : ArithOps, a : I64Inputs, b : I64Inputs]
    /\ ret = Pending
    /\ parents = [c \in Commits |-> <<>>]
    /\ refs = [c \in Commits |-> NoCommit]
    /\ message = Unread
    /\ start = 1 /\ end = 1
    /\ TreeIdle /\ ReplIdle /\ RunIdle /\ InterpIdle

\* interp.rs:348  op(a, b)
NumOp ==
    /\ ret = Pending
    /\ call.fn = "num_op"
    /\ ret' \in i64_op(call.opname, call.a, call.b)
    /\ UNCHANGED <<call, interpVars, store, message, treeVars, replVars, runVars>>

ArithNext == NumOp

ArithSpec == ArithInit /\ [][ArithNext]_vars

\* The mathematical result of the operation, exact in 128 bits.
Exact(opname, a, b) ==
    LET x == sign_extend(a, 2 * Width)
        y == sign_extend(b, 2 * Width)
    IN CASE opname = "add" -> add_bytes(x, y, 0)
         [] opname = "sub" -> add_bytes(x, not_bytes(y), 1)
         [] opname = "mul" -> mul_bytes(x, y)

\* C13: add, sub and mul on two Int operands yield the two's-complement
\* 64-bit result (the mathematical result modulo 2^64) for every pair of
\* operands, also when the mathematical result is outside the signed 64-bit
\* range, and never abort the interpreter.
C13_ArithmeticWraps ==
    ret # Pending =>
        ret = Ok(SubSeq(Exact(call.opname, call.a, call.b), 1, Width))

\* ---------------------------------------------------------------- parsing
\* interp.rs:121-201  the opcodes Op::from_str matches the first token against
Words ==
    [ set |-> <<"s", "e", "t">>,
      get |-> <<"g", "e", "t">>,
      del |-> <<"d", "e", "l">>,
      exists |-> <<"e", "x", "i", "s", "t", "s">>,
      branch |-> <<"b", "r", "a", "n", "c", "h">>,
      enter |-> <<"e", "n", "t", "e", "r">>,
      exit |-> <<"e", "x", "i", "t">>,
      match |-> <<"m", "a", "t", "c", "h">>,
      print |-> <<"p", "r", "i", "n", "t">>,
      println |-> <<"p", "r", "i", "n", "t", "l", "n">>,
      inpln |-> <<"i", "n", "p", "l", "n">>,
      concat |-> <<"c", "o", "n", "c", "a", "t">>,
      chars |-> <<"c", "h", "a", "r", "s">>,
      eq |-> <<"e", "q">>,
      gt |-> <<"g", "t">>,
      add |-> <<"a", "d", "d">>,
      sub |-> <<"s", "u", "b">>,
      mul |-> <<"m", "u", "l">>,
      div |-> <<"d", "i", "v">>,
      mod |-> <<"m", "o", "d">>,
      and |-> <<"a", "n", "d">>,
      or |-> <<"o", "r">>,
      xor |-> <<"x", "o", "r">> ]

\* interp.rs:124-187  the number of operands parse_args! takes for each opcode
ParseArgs ==
    [ set |-> 2, get |-> 2, del |-> 1, exists |-> 2, branch |-> 1, enter |-> 1, exit
      |-> 0, match |-> 2, print |-> 1, println |-> 1, inpln |-> 1, concat |-> 3, chars
      |-> 2, eq |-> 3, gt |-> 3, add |-> 3, sub |-> 3, mul |-> 3, div |-> 3, mod |->
      3, and |-> 3, or |-> 3, xor |-> 3 ]

DigitValue(c) == CHOOSE d \in 0..9 : Digits[d + 1] = c

RECURSIVE digits_value(_, _)
digits_value(s, acc) ==
    IF s = <<>> THEN acc ELSE digits_value(Tail(s), 10 * acc + DigitValue(s[1]))

\* str::parse::<i64>: an optional sign and at least one digit (the tokens at
\* hand are too short to leave the range of i64)
parse_i64(s) ==
    LET signed == s # <<>> /\ s[1] \in {"+", "-"}
        ds == IF signed THEN Tail(s) ELSE s
    IN IF ds = <<>> \/ \E i \in DOMAIN ds : \A d \in DOMAIN Digits : Digits[d] # ds[i]
       THEN Fail("ParseIntError")
       ELSE Ok(IF signed /\ s[1] = "-" THEN -digits_value(ds, 0) ELSE digits_value(ds, 0))

\* interp.rs:16-25  Val::from_str
val_from_str(s) ==
    IF s # <<>> /\ s[1] = "#"
    THEN LET n == parse_i64(Tail(s))
         IN IF n.ok THEN Ok(IntVal(n.val)) ELSE n
    ELSE Ok(StrVal(s))

\* interp.rs:65-74  Get::from_str
get_from_str(s) ==
    IF s # <<>> /\ s[1] = "$" THEN Ok(GetVar(Tail(s)))
    ELSE LET v == val_from_str(s)
         IN IF v.ok THEN Ok(GetVal(v.val)) ELSE v

\* interp.rs:109-119  parse_args!: n operands are taken from the tokens in
\* order, each one missing or invalid ends the parse
RECURSIVE parse_args(_, _)
parse_args(tokens, n) ==
    IF n = 0 THEN Ok(<<>>)
    ELSE IF tokens = <<>> THEN Fail("MissingOperand")
    ELSE LET g == get_from_str(tokens[1])
         IN IF ~g.ok THEN Fail("InvalidOperand")
            ELSE LET r == parse_args(Tail(tokens), n - 1)
                 IN IF r.ok THEN Ok(<<g.val>> \o r.val) ELSE r

\* interp.rs:150-161  the (value, branch) pairs of match: the tokens at even
\* places zipped with the tokens at odd places, each pair parsed in turn
RECURSIVE parse_pairs(_)
parse_pairs(tokens) ==
    IF Len(tokens) < 2 THEN Ok(<<>>)
    ELSE LET val == get_from_str(tokens[1])
             branch == get_from_str(tokens[2])
         IN IF ~val.ok \/ ~branch.ok THEN Fail("SyntaxError")
            ELSE LET r == parse_pairs(Tail(Tail(tokens)))
                 IN IF r.ok THEN Ok(<<<<val.val, branch.val>>>> \o r.val) ELSE r

\* interp.rs:106-205  Op::from_str on the tokens of a message
from_str(tokens) ==
    IF tokens = <<>> THEN Ok([op |-> "nop", args |-> <<>>])
    ELSE IF \A name \in DOMAIN Words : Words[name] # tokens[1]
    THEN Fail("InvalidOperation")
    ELSE LET name == CHOOSE n \in DOMAIN Words : Words[n] = tokens[1]
             args == parse_args(Tail(tokens), ParseArgs[name])
         IN IF ~args.ok THEN args
            ELSE IF name = "match"
            THEN LET pairs == parse_pairs(SubSeq(tokens, 4, Len(tokens)))
                 IN IF ~pairs.ok THEN pairs
                    ELSE Ok([op |-> name, args |-> args.val, branches |-> pairs.val])
            ELSE Ok([op |-> name, args |-> args.val])

\* --------------------------------------------------- specification: parsing
\* The operand tokens: a Str literal, a variable, an Int literal, a malformed
\* Int literal.
OperandTokens == {<<"a">>, <<"$", "a">>, <<"#", "1">>, <<"#", "x">>}

\* The first tokens: every opcode, and two words that are none.
FirstTokens ==
    {Words[name] : name \in DOMAIN Words} \cup {<<"n", "o", "p">>, <<"f", "r", "o", "b">>}

RECURSIVE OperandSeqs(_)
OperandSeqs(n) ==
    IF n = 0 THEN {<<>>}
    ELSE LET shorter == OperandSeqs(n - 1)
         IN shorter \cup {Append(s, t) : s \in shorter, t \in OperandTokens}

\* interp.rs:120  the tokens shellwords::split yields for a message
Messages ==
    {<<>>} \cup {<<first>> \o operands : first \in FirstTokens, operands \in OperandSeqs(MaxOperands)}

ParseInit ==
    /\ call \in [fn : {"from_str"}, tokens : Messages]
    /\ ret = Pending
    /\ parents = [c \in Commits |-> <<>>]
    /\ refs = [c \in Commits |-> NoCommit]
    /\ message = Unread
    /\ start = 1 /\ end = 1
    /\ TreeIdle /\ ReplIdle /\ RunIdle /\ InterpIdle

\* interp.rs:300-303  the message of the cursor is parsed
Parse ==
    /\ ret = Pending
    /\ call.fn = "from_str"
    /\ ret' = from_str(call.tokens)
    /\ UNCHANGED <<call, interpVars, store, message, treeVars, replVars, runVars>>

ParseNext == Parse

ParseSpec == ParseInit /\ [][ParseNext]_vars

\* The first token is no opcode of the instruction table, or the number of
\* operand tokens is not the opcode's arity (for match: var, src and any
\* number of complete value-branch pairs; for nop: none).
Malformed(tokens) ==
    /\ tokens # <<>>
    /\ LET operands == Len(tokens) - 1
       IN IF tokens[1] = <<"n", "o", "p">> THEN operands # 0
          ELSE IF \A name \in DOMAIN Words : Words[name] # tokens[1] THEN TRUE
          ELSE LET name == CHOOSE n \in DOMAIN Words : Words[n] = tokens[1]
               IN IF name = "match" THEN operands < 2 \/ (operands - 2) % 2 = 1
                  ELSE operands # ParseArgs[name]

\* C15: parsing a tokenized message yields a ParseError whenever the first
\* token is not a known opcode or the number of operand tokens does not match
\* the opcode's arity (too few, extra ones after the required ones, a trailing
\* match value without its branch); an empty message parses as nop.
C15_MalformedRejected ==
    ret # Pending =>
        /\ Malformed(call.tokens) => ~ret.ok
        /\ call.tokens = <<>> => ret = Ok([op |-> "nop", args |-> <<>>])

\* ----------------------------------------------------------------- branch
\* The members of the child set of c that are ancestors-or-self of the
\* resolved commit of tag t; none when the tag or the child set does not exist.
Candidates(c, t) ==
    IF find_tag_ref(t) = NoCommit \/ c \notin DOMAIN children THEN {}
    ELSE children[c] \cap Reachable(replace_commit(find_tag_ref(t)))

\* A branch whose operand resolved is executed in this step.
BranchStep == pc = "exec" /\ op = "branch" /\ err'.kind # "OperandError"

\* C16: branch T fails with BranchTargetNotFound if and only if no
\* ancestor-or-self of T's resolved commit is a member of the current commit's
\* child set C (or the tag or the child set does not exist); whenever it
\* succeeds, the new cursor is a member of C.
C16_BranchFailsIffNoCandidate ==
    [][BranchStep =>
        /\ pc' = "halted" =>
            /\ err' = [kind |-> "BranchTargetNotFound", prefix |-> cur]
            /\ Candidates(cur, tag') = {}
        /\ pc' # "halted" =>
            /\ Candidates(cur, tag') # {}
            /\ cur' \in children[cur]]_vars

\* C16 witness: a branch has moved the cursor to a child that is a proper
\* ancestor of the tag's commit.
C16_Witness ==
    /\ pc = "fetch" /\ op = "branch"
    /\ tag \in Ids
    /\ cur \in Ancestors(replace_commit(tag))
    /\ cur # replace_commit(tag)

\* ------------------------------------------------------------- successors
\* A non-branch instruction has been executed without error, at a cursor that
\* is not the resolved _end, and the run takes its next step.
AdvanceStep ==
    pc = "exec" /\ op = "op" /\ cur # ResolvedEnd /\ err'.kind # "ExecError"

\* The step goes to a child of the cursor, or halts with NoSuccessor when the
\* index holds none.
AdvanceOrHalt ==
    IF cur \in DOMAIN children /\ children[cur] # {}
    THEN pc' = "fetch" /\ cur' \in children[cur] /\ err' = NoErr
    ELSE pc' = "halted" /\ cur' = cur /\ err' = [kind |-> "NoSuccessor", prefix |-> cur]

\* Every child of the cursor can be the one the run goes to.
EveryChildPossible ==
    (pc = "exec" /\ op = "op" /\ cur # ResolvedEnd /\ cur \in DOMAIN children) =>
        \A next \in children[cur] : ENABLED ExecAdvance(next)

\* C17: after a non-branch instruction executes successfully at a cursor that
\* is not the resolved _end, the next cursor is some element of children[cur]
\* (resolved at the next fetch), every element being a possible choice; if cur
\* has no entry or no children in the index, the run halts with a NoSuccessor
\* error and no further instruction is executed.
C17_AdvanceToChild ==
    /\ []EveryChildPossible
    /\ [][(AdvanceStep => AdvanceOrHalt) /\ pc # "halted"]_vars

\* C17 witness: the run has gone from a commit with two children, whose
\* instruction was not a branch, to one of them.
C17_Witness ==
    /\ pc = "fetch" /\ op = "op"
    /\ \E c \in DOMAIN children :
        /\ c # ResolvedEnd
        /\ message[c] = "op"
        /\ Cardinality(children[c]) = 2
        /\ cur \in children[c]

\* The resolved commit of tag t is itself a child of the commit c.
TagIsChild(c, t) ==
    /\ find_tag_ref(t) # NoCommit
    /\ c \in DOMAIN children
    /\ replace_commit(find_tag_ref(t)) \in children[c]

\* C18: when the resolved commit of tag T is itself a member of the current
\* commit's child set C, branch T moves the cursor to that commit and to no
\* other member of C, whichever other members of C are ancestors of T.
C18_BranchPrefersTagItself ==
    [][(BranchStep /\ TagIsChild(cur, tag')) =>
        pc' = "fetch" /\ cur' = replace_commit(find_tag_ref(tag'))]_vars

\* C18 witness: a branch has moved the cursor to the tag's own commit although
\* another child of the branching commit is an ancestor of it.
C18_Witness ==
    /\ pc = "fetch" /\ op = "branch"
    /\ tag \in Ids
    /\ cur = replace_commit(tag)
    /\ \E c \in DOMAIN children :
        /\ message[c] = "branch"
        /\ cur \in children[c]
        /\ \E x \in children[c] : x # cur /\ x \in Ancestors(cur)

\* ------------------------------------------------------------------ match
\* The (value, branch) pairs a match is drawn with: a first pair and a second
\* one whose value is the Str a.
MatchPairs(v1, b1) == <<<<v1, b1>>, <<GetVal(StrVal(Sa)), GetVal(IntVal(0))>>>>

\* The places of the pairs whose value equals the value of src.
Hits(src, branches) ==
    {i \in DOMAIN branches :
        LET v == get_val(branches[i][1], Scope)
        IN v.ok /\ v.val = get_val(src, Scope).val}

\* src resolves, and so does the value of every pair the loop compares: all
\* of them up to the first hit.
Comparable(src, branches) ==
    /\ get_val(src, Scope).ok
    /\ \A i \in DOMAIN branches :
        (\A h \in Hits(src, branches) : i <= h) => get_val(branches[i][1], Scope).ok

\* C19: match V S v1 b1 v2 b2 ... does what set V bi does, for the first i
\* (in operand order) whose vi equals the value of S, later pairs that match
\* as well being ignored; if no vi equals S, the root table and the scope
\* stack are left exactly as they were and no error is raised.
C19_MatchFirst ==
    \A var \in Dests, src \in Strs, v1 \in Strs, b1 \in Nums :
        LET branches == MatchPairs(v1, b1)
            hits == Hits(src, branches)
            r == exec_match(var, src, branches, table, entered)
        IN Comparable(src, branches) =>
            IF hits = {} THEN r = Done(table, entered)
            ELSE LET first == CHOOSE i \in hits : \A h \in hits : i <= h
                     s == exec_set(var, branches[first][2], table, entered)
                 IN /\ r.table = s.table
                    /\ r.entered = s.entered
                    /\ (r.err = "none") = (s.err = "none")

\* C19 witness: in an entered scope b holds the Str a, so that match x $b with
\* the pairs ($b, ..) and (a, ..) has two pairs that match.
C19_Witness ==
    /\ entered # <<>>
    /\ ierr = "none"
    /\ get_val(GetVar(Sb), Scope) = Ok(StrVal(Sa))
    /\ Hits(GetVar(Sb), MatchPairs(GetVar(Sb), GetVal(IntVal(1)))) = {1, 2}

\* -------------------------------------------------------------------- del
\* The proper prefixes of a path: its interior segments.
Interiors(subs) == {SubSeq(subs, 1, k) : k \in 1..(Len(subs) - 1)}

\* An interior segment of the path names a value that is not a Table.
InteriorBlocked(tbl, subs) ==
    \E prefix \in Interiors(subs) :
        LET w == walk(tbl, prefix) IN w.ok /\ w.val.t # "Table"

\* C20: del of a path walks from the current scope creating every missing
\* interior segment as an empty Table, then removes the final key: afterwards
\* a variable read of the path fails, a missing final key causes no error, the
\* interior Tables are in the store, and an interior segment naming a
\* non-Table raises NotATable without removing anything.
C20_DelRemovesTail ==
    \A var \in Dests :
        get_val(var, Scope).ok =>
            LET subs == split(PathOf(var))
                r == exec_del(var, table, entered)
            IN IF InteriorBlocked(Scope, subs)
               THEN r = Raise(table, entered, "NotATable")
               ELSE /\ r.err = "none"
                    /\ r.entered = entered
                    /\ ~get_val(GetVar(PathOf(var)), ScopeAfter(r)).ok
                    /\ \A prefix \in Interiors(subs) :
                        LET w == walk(ScopeAfter(r), prefix)
                        IN /\ w.ok /\ w.val.t = "Table"
                           /\ ~walk(Scope, prefix).ok => DOMAIN w.val.m \subseteq {subs[Len(prefix) + 1]}

\* C20 witness: inside the scope a, a del of a/b has left the interior Table a
\* it created, empty.
C20_Witness ==
    /\ entered = <<Sa>>
    /\ ierr = "none"
    /\ Scope = [k \in {Sa} |-> TableVal(NewTable)]

\* ------------------------------------------- specification: the two walks
\* The commit sets find_tag is called with: the empty one and the singletons.
CommitSets == {S \in SUBSET Commits : Cardinality(S) <= 1}

\* The number of times each commit has been put on the DFS stack.
NoPushes == [c \in Commits |-> 0]
Pushed(pushes, c) == [pushes EXCEPT ![c] = @ + 1]

\* The walk record after an iteration that took it from old to new: a stack
\* that grew has had its top pushed.
Counted(old, new) ==
    [s \in {"pushes"} |->
        IF Len(new.stack) > Len(old.stack)
        THEN Pushed(old.pushes, new.stack[Len(new.stack)][1])
        ELSE old.pushes] @@ new

\* tree.rs:11-14  collect_children has resolved end and pushed it
\* interp.rs:505-513  find_tag has resolved the tag's commit and pushed it
WalkInit ==
    /\ parents \in Graphs(NumCommits)
    /\ refs \in AcyclicRefs(NumCommits, MaxRepl)
    /\ message = Unread
    /\ start = 1
    /\ end \in Commits
    /\ TreeIdle /\ ReplIdle /\ RunIdle /\ InterpIdle
    /\ \/ /\ call = [fn |-> "collect_children"]
          /\ ret = [stack |-> <<<<replace(end).commit, 0>>>>,
                    children |-> <<>>,
                    equals |-> collect_equals(<<>>, replace(end)),
                    pushes |-> Pushed(NoPushes, replace(end).commit)]
       \/ /\ call \in [fn : {"find_tag"}, tag : Commits, commits : CommitSets]
          /\ ret = [stack |-> <<<<replace(find_tag_ref(call.tag)).commit, 0>>>>,
                    checked |-> {}, dist |-> 1, found |-> <<>>,
                    pushes |-> Pushed(NoPushes, replace(find_tag_ref(call.tag)).commit)]

\* tree.rs:15-35  one iteration of the loop of collect_children
CollectStep ==
    /\ call.fn = "collect_children"
    /\ ret.stack # <<>>
    /\ ret' = Counted(ret, collect_step(ret.stack, ret.children, ret.equals))
    /\ UNCHANGED <<call, interpVars, store, message, treeVars, replVars, runVars>>

\* interp.rs:514-531  one iteration of the loop of find_tag
FindTagStep ==
    /\ call.fn = "find_tag"
    /\ ret.stack # <<>>
    /\ ret' = Counted(ret, find_tag_step(ret.stack, ret.checked, ret.dist, ret.found,
                                         call.commits))
    /\ UNCHANGED <<call, interpVars, store, message, treeVars, replVars, runVars>>

WalkNext == CollectStep \/ FindTagStep

WalkSpec == WalkInit /\ [][WalkNext]_vars

\* The loops run as long as their stack is not empty.
WalkFairSpec == WalkSpec /\ WF_vars(WalkNext)

\* The walk has left its loop.
WalkDone == ret.stack = <<>>

\* The canonical commit the walk starts from.
WalkRoot ==
    IF call.fn = "find_tag" THEN replace_commit(find_tag_ref(call.tag))
    ELSE replace_commit(end)

\* Only canonical commits are on the stack, and no commit has been put there
\* more than twice (the commit the walk starts from once at the start and once
\* more when the resolved parent relation leads back to it, every other
\* commit once).
BoundedExpansion ==
    /\ \A k \in DOMAIN ret.stack : Canonical(ret.stack[k][1])
    /\ \A c \in Commits :
        ret.pushes[c] <= (IF c = WalkRoot THEN 2 ELSE 1)

\* C21: the children-index build and the ancestor walk of find_tag both
\* terminate on every finite store with acyclic replacement chains, also when
\* the replacement references make the resolved parent relation cyclic: each
\* canonical commit is expanded a bounded number of times.
C21_WalksTerminate == <>WalkDone /\ []BoundedExpansion

\* C21 witness: a walk has ended on a store where the commit it started from
\* is its own resolved ancestor, after expanding that commit twice.
C21_Witness ==
    /\ WalkDone
    /\ WalkRoot \in Ancestors(WalkRoot)
    /\ ret.pushes[WalkRoot] = 2

\* ------------------------------------------------- the cursor and the index
\* The commits the run can get to from the commits of S along the index.
RECURSIVE Forward(_)
Forward(S) ==
    LET T == S \cup UNION {children[c] : c \in S \cap DOMAIN children}
    IN IF T = S THEN S ELSE Forward(T)

\* The cursor is moved by this step: to a random successor or a branch target.
CursorAdvances == pc = "exec" /\ pc' = "fetch"

\* The commit is the resolved _end or a key of the index with a child, and
\* the resolved _end can be reached from it through the index.
OnTheWay(c) ==
    /\ c = ResolvedEnd \/ (c \in DOMAIN children /\ children[c] # {})
    /\ ResolvedEnd \in Forward({c})

\* A NoSuccessor error is raised at the cursor the run started with.
NoSuccessorOnlyAtStart ==
    err.kind = "NoSuccessor" =>
        /\ cur = replace_commit(start)
        /\ err.prefix = cur
        /\ cur \notin DOMAIN children

\* C22: every commit the cursor reaches by advancing (random successor or
\* branch) is the resolved _end or a key of the children index with at least
\* one child, so that a NoSuccessor error can occur only at the initial _start
\* cursor; and from every commit reached by advancing, the resolved _end
\* remains reachable through the index.
C22_AdvanceStaysOnTheWay ==
    /\ []NoSuccessorOnlyAtStart
    /\ [][CursorAdvances => OnTheWay(cur')]_vars

\* C22 witness: the run has advanced from an executed commit to a commit that
\* is neither the resolved _start nor the resolved _end.
C22_Witness ==
    /\ pc = "fetch"
    /\ cur \notin {ResolvedEnd, replace_commit(start)}
    /\ OnTheWay(cur)
    /\ \E c \in DOMAIN children : cur \in children[c] /\ message[c] # "unread"

====
